---- MODULE Spec2Model ----
(***************************************************************************)
(* Bank statement tool: the document walker (extract_transactions), the    *)
(* line parser (parse_transaction_line), the three ledger matchers and the *)
(* "Extract & Apply Mapping" orchestrator of bank_statement_tool.py.       *)
(*                                                                         *)
(* Text is modelled by TLA+ strings, handled character by character with   *)
(* Len, SubSeq, Head, Tail and \o.  Money is counted in whole cents: the   *)
(* float 10.25 of the source is the integer 1025 here.                     *)
(***************************************************************************)
EXTENDS Integers, Sequences, FiniteSets, TLC

VARIABLES
    pc,                \* position of the invocation in the script
    lines,             \* the physical lines of the document read so far, in order
    entries,           \* extract_transactions: entries
    prev_balance,      \* extract_transactions: prev_balance (<<>> is None)
    narration_buffer,  \* extract_transactions: narration_buffer
    appends,           \* per entry: how often its Particulars was rewritten
    mapping_type,      \* st.radio choice
    enable_default_mapping,
    enable_custom_mapping,
    custom_map,        \* ordered dict: sequence of <<keyword, ledger>>
    trend_map,         \* ordered dict: sequence of <<particulars, ledger>>
    ledger,            \* the "Ledger Name" column of df (<<>> before df exists)
    row,               \* rows of df already classified by the trend matcher
    scores,            \* partial_ratio scores of the last apply_trend_mapping call
    store,             \* content of <user_id>_mapping.json (<<>> if no file)
    store_log          \* accesses to the mapping file made by this invocation

walker == <<entries, prev_balance, narration_buffer>>
config == <<mapping_type, enable_default_mapping, enable_custom_mapping,
            custom_map, trend_map>>
vars == <<pc, lines, entries, prev_balance, narration_buffer, appends,
          mapping_type, enable_default_mapping, enable_custom_mapping,
          custom_map, trend_map, ledger, row, scores, store, store_log>>

(***************************************************************************)
(* Bounds of the model.                                                    *)
(***************************************************************************)
MaxLines == 4      \* lines per document when the walker is checked alone
MaxDocLines == 2   \* lines per document when the whole pipeline is checked

(***************************************************************************)
(* Characters and Python's str methods.                                    *)
(***************************************************************************)
Char(s, i) == SubSeq(s, i, i)

Digits == {"0", "1", "2", "3", "4", "5", "6", "7", "8", "9"}

IsDigit(c) == c \in Digits

DigitVal(c) ==
    CASE c = "0" -> 0 [] c = "1" -> 1 [] c = "2" -> 2 [] c = "3" -> 3
      [] c = "4" -> 4 [] c = "5" -> 5 [] c = "6" -> 6 [] c = "7" -> 7
      [] c = "8" -> 8 [] c = "9" -> 9

UpperLetters == "ABCDEFGHIJKLMNOPQRSTUVWXYZ"

LowerLetters == "abcdefghijklmnopqrstuvwxyz"

IsUpper(c) == \E i \in 1..Len(UpperLetters) : Char(UpperLetters, i) = c

IsLower(c) == \E i \in 1..Len(LowerLetters) : Char(LowerLetters, i) = c

LowerChar(c) ==
    IF IsUpper(c)
    THEN Char(LowerLetters, CHOOSE i \in 1..Len(UpperLetters) : Char(UpperLetters, i) = c)
    ELSE c

RECURSIVE lower(_)
\* str.lower()
lower(s) == IF s = "" THEN "" ELSE LowerChar(Head(s)) \o lower(Tail(s))

RECURSIVE lstrip(_)
lstrip(s) == IF s # "" /\ Head(s) = " " THEN lstrip(Tail(s)) ELSE s

RECURSIVE rstrip(_)
rstrip(s) ==
    IF s # "" /\ Char(s, Len(s)) = " " THEN rstrip(SubSeq(s, 1, Len(s) - 1)) ELSE s

\* str.strip()
strip(s) == rstrip(lstrip(s))

\* Python's  sub in s
Contains(sub, s) ==
    \E i \in 0..(Len(s) - Len(sub)) : SubSeq(s, i + 1, i + Len(sub)) = sub

\* s[n:]
DropFirst(s, n) == SubSeq(s, n + 1, Len(s))

EndsWith(s, suffix) ==
    Len(s) >= Len(suffix) /\ SubSeq(s, Len(s) - Len(suffix) + 1, Len(s)) = suffix

RECURSIVE KeepDigits(_)
\* s.replace(",", "") on a string of digits and commas
KeepDigits(s) ==
    IF s = "" THEN ""
    ELSE (IF Head(s) = "," THEN "" ELSE Head(s)) \o KeepDigits(Tail(s))

RECURSIVE DigitsValue(_)
\* the number written by a string of decimal digits
DigitsValue(s) ==
    IF s = "" THEN 0
    ELSE 10 * DigitsValue(SubSeq(s, 1, Len(s) - 1)) + DigitVal(Char(s, Len(s)))

TwoDigits(n) == Char("0123456789", (n \div 10) + 1) \o Char("0123456789", (n % 10) + 1)

FourDigits(n) == TwoDigits(n \div 100) \o TwoDigits(n % 100)

(***************************************************************************)
(* clean_text: re.sub(r'[^a-zA-Z0-9 ]', '', text.lower()).strip()          *)
(***************************************************************************)
IsCleanChar(c) == IsLower(c) \/ IsUpper(c) \/ IsDigit(c) \/ c = " "

RECURSIVE KeepClean(_)
\* re.sub(r'[^a-zA-Z0-9 ]', '', s): the characters of s the pattern spares
KeepClean(s) ==
    IF s = "" THEN ""
    ELSE (IF IsCleanChar(Head(s)) THEN Head(s) ELSE "") \o KeepClean(Tail(s))

clean_text(text) == strip(KeepClean(lower(text)))

(***************************************************************************)
(* parse_transaction_line(line, prev_balance)                              *)
(***************************************************************************)
\* re.match(r'^(\d{2}-\d{2}-\d{2,4})', line): length of group 1, 0 if no match
DateMatchLen(line) ==
    IF /\ Len(line) >= 8
       /\ \A i \in {1, 2, 4, 5, 7, 8} : IsDigit(Char(line, i))
       /\ Char(line, 3) = "-"
       /\ Char(line, 6) = "-"
    THEN IF Len(line) >= 9 /\ IsDigit(Char(line, 9))
         THEN IF Len(line) >= 10 /\ IsDigit(Char(line, 10)) THEN 10 ELSE 9
         ELSE 8
    ELSE 0

IsLeap(y) == y % 4 = 0 /\ (y % 100 # 0 \/ y % 400 = 0)

DaysInMonth(m, y) ==
    IF m = 2 THEN (IF IsLeap(y) THEN 29 ELSE 28)
    ELSE IF m \in {4, 6, 9, 11} THEN 30 ELSE 31

\* datetime.strptime(date_str, "%d-%m-%y" or "%d-%m-%Y"): <<d, m, y>>, or <<>>
\* where strptime raises ValueError.  %Y wants exactly four digits; %y maps
\* 00..68 to 2000..2068 and 69..99 to 1969..1999.
strptime(date_str) ==
    LET d  == DigitsValue(SubSeq(date_str, 1, 2))
        m  == DigitsValue(SubSeq(date_str, 4, 5))
        ys == DropFirst(date_str, 6)
        y  == IF Len(ys) = 2
              THEN (IF DigitsValue(ys) <= 68 THEN 2000 ELSE 1900) + DigitsValue(ys)
              ELSE DigitsValue(ys)
    IN  IF /\ Len(ys) \in {2, 4}
           /\ y >= 1
           /\ m \in 1..12
           /\ d >= 1
           /\ d <= DaysInMonth(m, y)
        THEN <<d, m, y>>
        ELSE <<>>

\* date_obj.strftime("%d-%m-%Y"), for years of four digits
strftime(dmy) == TwoDigits(dmy[1]) \o "-" \o TwoDigits(dmy[2]) \o "-" \o FourDigits(dmy[3])

\* the end of group 1 of (\d[\d,]*\.\d{2})(Cr|Dr)?$ in rest, were it to match
AmountEnd(rest) ==
    IF EndsWith(rest, "Cr") \/ EndsWith(rest, "Dr") THEN Len(rest) - 2 ELSE Len(rest)

\* the positions at which (\d[\d,]*\.\d{2})(Cr|Dr)?$ matches in rest
BalanceStarts(rest) ==
    LET e == AmountEnd(rest)
    IN  IF /\ e >= 4
           /\ IsDigit(Char(rest, e))
           /\ IsDigit(Char(rest, e - 1))
           /\ Char(rest, e - 2) = "."
        THEN {i \in 1..(e - 3) :
                /\ IsDigit(Char(rest, i))
                /\ \A k \in i..(e - 3) : IsDigit(Char(rest, k)) \/ Char(rest, k) = ","}
        ELSE {}

\* re.search returns the leftmost match
BalanceStart(rest) ==
    LET starts == BalanceStarts(rest)
    IN  CHOOSE i \in starts : \A j \in starts : i <= j

\* float(balance_amt.replace(",", "")), in cents
AmountCents(balance_amt) ==
    LET e == Len(balance_amt)
    IN  100 * DigitsValue(KeepDigits(SubSeq(balance_amt, 1, e - 3)))
        + DigitsValue(SubSeq(balance_amt, e - 1, e))

Record(date, narration, deposit, withdrawal, closing) ==
    [x \in {"Date", "Particulars", "Deposit", "Withdrawals", "Closing Balance"} |->
        CASE x = "Date" -> date
          [] x = "Particulars" -> narration
          [] x = "Deposit" -> deposit
          [] x = "Withdrawals" -> withdrawal
          [] x = "Closing Balance" -> closing]

\* BalanceVal with the Dr polarity forgotten
BalanceVal_Unsigned(balance_amt, balance_type) == AmountCents(balance_amt)

\* balance_val: float(...) negated unless the suffix is Cr
BalanceVal(balance_amt, balance_type) ==
    IF balance_type = "Cr" THEN AmountCents(balance_amt) ELSE -AmountCents(balance_amt)

\* diff = balance_val - prev_balance, taken only when prev_balance is not None
Diff(balance_val, prev) == IF prev = <<>> THEN 0 ELSE balance_val - prev[1]

Deposit(diff) == IF diff > 0 THEN diff ELSE 0

\* Withdrawal taking the size of any difference, rise or fall
Withdrawal_Abs(diff) == IF diff < 0 THEN -diff ELSE diff

Withdrawal(diff) == IF diff < 0 THEN -diff ELSE 0

\* The pair the function returns: parsed is <<>> for None, else <<record>>.
parse_transaction_line(line, prev) ==
    LET n == DateMatchLen(line)
        date_str == SubSeq(line, 1, n)
        date_obj == strptime(date_str)
        rest == strip(DropFirst(line, n))
    IN  IF n = 0 \/ date_obj = <<>> \/ BalanceStarts(rest) = {}
        THEN [parsed |-> <<>>, prev_balance |-> prev]
        ELSE
          LET start == BalanceStart(rest)
              balance_amt == SubSeq(rest, start, AmountEnd(rest))
              balance_type == IF AmountEnd(rest) < Len(rest)
                              THEN DropFirst(rest, AmountEnd(rest)) ELSE "Cr"
              balance_val == BalanceVal(balance_amt, balance_type)
              diff == Diff(balance_val, prev)
              narration == strip(SubSeq(rest, 1, start - 1))
          IN  [parsed |-> <<Record(strftime(date_obj), narration,
                                   Deposit(diff), Withdrawal(diff),
                                   balance_amt \o balance_type)>>,
               prev_balance |-> <<balance_val>>]

(***************************************************************************)
(* extract_transactions: one step of the loop over the lines, and the      *)
(* flush after the loop.                                                   *)
(***************************************************************************)
SeparatorChars == {".", "-", "_", "="}

\* IsNoise without the "total" test
IsNoise_NoTotal(line) ==
    LET lowered == lower(line)
    IN  \/ line = ""
        \/ Contains("account", lowered)
        \/ Contains("page", lowered)
        \/ (Len(line) >= 5 /\ \A i \in 1..Len(line) : Char(line, i) \in SeparatorChars)

\* the test that makes the loop  continue  (line already stripped)
IsNoise(line) ==
    LET lowered == lower(line)
    IN  \/ line = ""
        \/ Contains("account", lowered)
        \/ Contains("page", lowered)
        \/ Contains("total", lowered)
        \/ (Len(line) >= 5 /\ \A i \in 1..Len(line) : Char(line, i) \in SeparatorChars)

\* Flush that forgets to empty the buffer
Flush_KeepBuffer(st) ==
    IF st.narration_buffer # "" /\ st.entries # <<>>
    THEN [st EXCEPT
            !.entries[Len(st.entries)]["Particulars"] = @ \o " " \o strip(st.narration_buffer)]
    ELSE st

\* if narration_buffer and entries: entries[-1]["Particulars"] += ...; buffer = ""
Flush(st) ==
    IF st.narration_buffer # "" /\ st.entries # <<>>
    THEN [st EXCEPT
            !.entries[Len(st.entries)]["Particulars"] = @ \o " " \o strip(st.narration_buffer),
            !.narration_buffer = ""]
    ELSE st

\* the flush after the loop, which leaves the buffer as it is
FinalFlush(st) == [Flush(st) EXCEPT !.narration_buffer = st.narration_buffer]

\* the body of  for line in lines
WalkLine(st, raw) ==
    LET line == strip(raw)
    IN  IF IsNoise(line) THEN st
        ELSE IF DateMatchLen(line) > 0
        THEN LET f == Flush(st)
                 p == parse_transaction_line(line, f.prev_balance)
             IN  [entries |-> IF p.parsed # <<>>
                              THEN Append(f.entries, p.parsed[1]) ELSE f.entries,
                  prev_balance |-> p.prev_balance,
                  narration_buffer |-> f.narration_buffer]
        ELSE [st EXCEPT !.narration_buffer = @ \o " " \o strip(line)]

WalkerState == [entries |-> entries, prev_balance |-> prev_balance,
                narration_buffer |-> narration_buffer]

\* how often each entry's Particulars has been rewritten since it was appended
Rewrites(old, new, count) ==
    [i \in 1..Len(new) |->
        IF i <= Len(old)
        THEN count[i] + (IF new[i]["Particulars"] # old[i]["Particulars"] THEN 1 ELSE 0)
        ELSE 0]

(***************************************************************************)
(* The ledger matchers.                                                    *)
(***************************************************************************)
drawings_keywords == <<"swiggy", "instamart", "zomato", "amazon", "flipkart",
                       "groceries", "grocery", "blinkit", "zepto">>

cash_keywords == <<"cash from atm", "atm withdrawal", "atm wdl", "cash withdrawal">>

AnyKeyword(keywords, text) == \E i \in 1..Len(keywords) : Contains(keywords[i], text)

\* default_mapping with the drawings tier tried first
default_mapping_DrawingsFirst(narration) ==
    LET narration_lower == lower(narration)
    IN  IF AnyKeyword(drawings_keywords, narration_lower) THEN "Drawings"
        ELSE IF Contains("cash", narration_lower) \/ Contains("atm", narration_lower)
        THEN "Cash"
        ELSE ""

default_mapping(narration) ==
    LET narration_lower == lower(narration)
    IN  IF Contains("cash", narration_lower) \/ Contains("atm", narration_lower)
        THEN "Cash"
        ELSE IF AnyKeyword(drawings_keywords, narration_lower) THEN "Drawings"
        ELSE IF AnyKeyword(cash_keywords, narration_lower) THEN "Cash"
        ELSE ""

\* the dict is walked in insertion order; the first keyword found decides
apply_custom_mapping(narration, cmap) ==
    LET narration_lower == lower(narration)
        hits == {i \in 1..Len(cmap) : Contains(lower(cmap[i][1]), narration_lower)}
    IN  IF hits = {} THEN ""
        ELSE cmap[CHOOSE i \in hits : \A j \in hits : i <= j][2]

\* the update of best_match and best_score for one key
TrendUpdate(best, ledger_i, score) ==
    IF score > best.best_score
    THEN [best_match |-> ledger_i, best_score |-> score]
    ELSE best

RECURSIVE TrendScan(_, _, _, _)
\* the loop over trend_map.items() from key i on; sc[i] is the score of key i
TrendScan(tmap, sc, i, best) ==
    IF i > Len(tmap) THEN best
    ELSE TrendScan(tmap, sc, i + 1, TrendUpdate(best, tmap[i][2], sc[i]))

\* TrendResult accepting a best score of exactly 70
TrendResult_AtLeast(best) == IF best.best_score >= 70 THEN best.best_match ELSE ""

\* return best_match if best_score > 70 else ""
TrendResult(best) == IF best.best_score > 70 THEN best.best_match ELSE ""

\* sc[i] stands for fuzz.partial_ratio(clean_text(narration), clean_text(key i))
apply_trend_mapping(tmap, sc) ==
    TrendResult(TrendScan(tmap, sc, 1, [best_match |-> "", best_score |-> 0]))

\* Scores the library may return: it is outside the repository, so any score is
\* allowed, except that equal non-empty cleaned strings score 100.
ScoreValues == {0, 70, 71, 100}

PartialRatios(narration, tmap) ==
    LET narration_clean == clean_text(narration)
        same == {i \in 1..Len(tmap) :
                    narration_clean # "" /\ narration_clean = clean_text(tmap[i][1])}
    IN  {sc \in [1..Len(tmap) -> ScoreValues] : \A i \in same : sc[i] = 100}

\* Where with the roles swapped: a custom match replaces the default result
Where_Override(series, other) ==
    [i \in 1..Len(series) |-> IF other[i] # "" THEN other[i] ELSE series[i]]

\* Series.where(series != "", other): keep the non-empty cells, take other elsewhere
Where(series, other) ==
    [i \in 1..Len(series) |-> IF series[i] # "" THEN series[i] ELSE other[i]]

(***************************************************************************)
(* Inputs: the lines a statement may hold, and the form's choices.         *)
(***************************************************************************)
Catalogue ==
    { "01-01-24 ATM WDL 10.00Cr",        \* header, two-digit year
      "02-01-2024 Swiggy 1,000.50Dr",    \* header, four-digit year, debit balance
      "03-01-24 ZEPTO ATM 10.00",        \* header without polarity suffix
      "04-01-24 NEFT RENT 7.25Cr",       \* header no default rule matches
      "31-02-24 X 5.00Cr",               \* date pattern, no such day
      "05-01-24 CHQ 12",                 \* date pattern, no balance figure
      "REF NO 12345",                    \* continuation
      " UPI/9 ",                         \* continuation, untrimmed
      "  ",                              \* blank
      "06-01-24 Total 9.00Cr",           \* boilerplate that has the header shape
      "=====" }                          \* separator

CustomDefault == "Custom + Default Mapping"

Trend == "Trend Mapping"

CustomMaps ==
    { <<>>,
      << <<"Rent", "Rent Paid">> >>,
      << <<"ATM", "Bank">>, <<"neft", "Transfer">>, <<"RENT", "Rent Paid">> >> }

TrendMaps ==
    { <<>>,
      << <<"ATM WDL", "Cash">> >>,
      << <<"Swiggy", "Food">>, <<"NEFT-RENT", "Rent">> >> }

\* what the form can hold when the button is pressed: custom_map is filled only
\* under the custom checkbox, trend_map only in trend mode (where the two
\* checkboxes do not exist and their values are never read)
Configs ==
    [mapping_type : {CustomDefault}, enable_default_mapping : BOOLEAN,
     enable_custom_mapping : {TRUE}, custom_map : CustomMaps, trend_map : {<<>>}]
    \cup
    [mapping_type : {CustomDefault}, enable_default_mapping : BOOLEAN,
     enable_custom_mapping : {FALSE}, custom_map : {<<>>}, trend_map : {<<>>}]
    \cup
    [mapping_type : {Trend}, enable_default_mapping : {TRUE},
     enable_custom_mapping : {FALSE}, custom_map : {<<>>}, trend_map : TrendMaps]

\* save_mapping: the file is rewritten whole with the two maps
save_mapping(cmap, tmap) == <<[custom_map |-> cmap, trend_map |-> tmap]>>

\* load_mapping: the stored maps, or two empty maps when there is no file.
\* The script defines it and calls it nowhere, so no action below uses it.
load_mapping(file) ==
    IF file # <<>> THEN <<file[1].custom_map, file[1].trend_map>> ELSE <<<<>>, <<>>>>

\* the mapping file an earlier run may have left
StoredBefore == {<<>>, save_mapping(<<>>, <<>>)}

(***************************************************************************)
(* The invocation: button pressed, extract_transactions entered.           *)
(***************************************************************************)
InitRun ==
    /\ pc = "walk"
    /\ lines = <<>>
    /\ entries = <<>>
    /\ prev_balance = <<>>
    /\ narration_buffer = ""
    /\ appends = <<>>
    /\ ledger = <<>>
    /\ row = 0
    /\ scores = <<>>
    /\ store_log = <<>>

Init ==
    /\ InitRun
    /\ store \in StoredBefore
    /\ \E c \in Configs :
        /\ mapping_type = c.mapping_type
        /\ enable_default_mapping = c.enable_default_mapping
        /\ enable_custom_mapping = c.enable_custom_mapping
        /\ custom_map = c.custom_map
        /\ trend_map = c.trend_map

\* the form as it is first drawn, for the walker taken alone
InitWalk ==
    /\ InitRun
    /\ store = <<>>
    /\ mapping_type = CustomDefault
    /\ enable_default_mapping = TRUE
    /\ enable_custom_mapping = FALSE
    /\ custom_map = <<>>
    /\ trend_map = <<>>

SetWalker(st) ==
    /\ entries' = st.entries
    /\ prev_balance' = st.prev_balance
    /\ narration_buffer' = st.narration_buffer
    /\ appends' = Rewrites(entries, st.entries, appends)

\* one iteration of  for line in lines
ReadLine(bound) ==
    /\ pc = "walk"
    /\ Len(lines) < bound
    /\ \E raw \in Catalogue :
        /\ lines' = Append(lines, raw)
        /\ SetWalker(WalkLine(WalkerState, raw))
    /\ UNCHANGED <<pc, config, ledger, row, scores, store, store_log>>

\* the loop ends: the last flush, and  return entries
EndOfDocument ==
    /\ pc = "walk"
    /\ SetWalker(FinalFlush(WalkerState))
    /\ pc' = "extracted"
    /\ UNCHANGED <<lines, config, ledger, row, scores, store, store_log>>

\* if data: ... else: st.warning(...)
NoTransactions ==
    /\ pc = "extracted"
    /\ entries = <<>>
    /\ pc' = "done"
    /\ UNCHANGED <<lines, walker, appends, config, ledger, row, scores, store, store_log>>

\* df = pd.DataFrame(data); df["Ledger Name"] = ""
BuildFrame ==
    /\ pc = "extracted"
    /\ entries # <<>>
    /\ ledger' = [i \in 1..Len(entries) |-> ""]
    /\ pc' = "map"
    /\ UNCHANGED <<lines, walker, appends, config, row, scores, store, store_log>>

\* if enable_default_mapping: df["Ledger Name"] = df["Particulars"].apply(default_mapping)
DefaultStep ==
    /\ pc = "map"
    /\ mapping_type = CustomDefault
    /\ ledger' = IF enable_default_mapping
                 THEN [i \in 1..Len(entries) |-> default_mapping(entries[i]["Particulars"])]
                 ELSE ledger
    /\ pc' = "custom"
    /\ UNCHANGED <<lines, walker, appends, config, row, scores, store, store_log>>

\* if enable_custom_mapping and custom_map: mapped_ledgers = ...; where(...)
CustomStep ==
    /\ pc = "custom"
    /\ ledger' = IF enable_custom_mapping /\ custom_map # <<>>
                 THEN Where(ledger,
                            [i \in 1..Len(entries) |->
                                apply_custom_mapping(entries[i]["Particulars"], custom_map)])
                 ELSE ledger
    /\ pc' = "export"
    /\ UNCHANGED <<lines, walker, appends, config, row, scores, store, store_log>>

\* elif mapping_type == "Trend Mapping" and trend_map: one row of the apply
TrendRow ==
    /\ pc = "map"
    /\ mapping_type = Trend
    /\ trend_map # <<>>
    /\ \E sc \in PartialRatios(entries[row + 1]["Particulars"], trend_map) :
        /\ scores' = sc
        /\ ledger' = [ledger EXCEPT ![row + 1] = apply_trend_mapping(trend_map, sc)]
    /\ row' = row + 1
    /\ pc' = IF row + 1 = Len(entries) THEN "export" ELSE "map"
    /\ UNCHANGED <<lines, walker, appends, config, store, store_log>>

\* trend mode with an empty trend_map: neither branch runs
TrendSkip ==
    /\ pc = "map"
    /\ mapping_type = Trend
    /\ trend_map = <<>>
    /\ pc' = "export"
    /\ UNCHANGED <<lines, walker, appends, config, ledger, row, scores, store, store_log>>

\* the export, then save_mapping(account_info, custom_map, trend_map)
SaveMapping ==
    /\ pc = "export"
    /\ store' = save_mapping(custom_map, trend_map)
    /\ store_log' = Append(store_log, "write")
    /\ pc' = "done"
    /\ UNCHANGED <<lines, walker, appends, config, ledger, row, scores>>

Next ==
    \/ ReadLine(MaxDocLines)
    \/ EndOfDocument
    \/ NoTransactions
    \/ BuildFrame
    \/ DefaultStep
    \/ CustomStep
    \/ TrendRow
    \/ TrendSkip
    \/ SaveMapping

Spec == Init /\ [][Next]_vars

\* extract_transactions alone, on longer documents
NextWalk ==
    \/ ReadLine(MaxLines)
    \/ EndOfDocument

SpecWalk == InitWalk /\ [][NextWalk]_vars

(***************************************************************************)
(* What the properties below read off a document and a record.             *)
(***************************************************************************)
\* the signed closing balance of a record, in cents
SignedBalance(rec) ==
    LET cb == rec["Closing Balance"]
    IN  IF EndsWith(cb, "Dr") THEN -AmountCents(SubSeq(cb, 1, Len(cb) - 2))
        ELSE IF EndsWith(cb, "Cr") THEN AmountCents(SubSeq(cb, 1, Len(cb) - 2))
        ELSE AmountCents(cb)

\* what the walker makes of a physical line
Kind(raw) ==
    LET line == strip(raw)
    IN  IF IsNoise(line) THEN "noise"
        ELSE IF DateMatchLen(line) = 0 THEN "continuation"
        ELSE IF parse_transaction_line(line, <<>>).parsed = <<>> THEN "unparsed"
        ELSE "header"

\* Kind and the parsed narration, tabulated over the lines a document may hold
KindOf == [raw \in Catalogue |-> Kind(raw)]

NarrationOf ==
    [raw \in {c \in Catalogue : Kind(c) = "header"} |->
        parse_transaction_line(strip(raw), <<>>).parsed[1]["Particulars"]]

IsHeaderAt(i) == KindOf[lines[i]] = "header"

\* the positions in the document of the header lines that yield a record
HeaderIdx == SelectSeq([i \in 1..Len(lines) |-> i], IsHeaderAt)

\* a continuation line with no recorded header before it
IsLeadingContinuation(i) ==
    /\ KindOf[lines[i]] = "continuation"
    /\ \A j \in 1..(i - 1) : KindOf[lines[j]] # "header"

NoLeadingContinuation == \A i \in 1..Len(lines) : ~IsLeadingContinuation(i)

RECURSIVE Folded(_, _)
\* the continuation lines among lines[i..j], each after one space
Folded(i, j) ==
    IF i > j THEN ""
    ELSE (IF KindOf[lines[i]] = "continuation" THEN " " \o strip(lines[i]) ELSE "")
         \o Folded(i + 1, j)

\* what record k should read, h being HeaderIdx
ExpectedParticulars(h, k) ==
    LET first == h[k]
        last == IF k < Len(h) THEN h[k + 1] - 1 ELSE Len(lines)
    IN  NarrationOf[lines[first]] \o Folded(first + 1, last)

BothZero(rec) == rec["Deposit"] = 0 /\ rec["Withdrawals"] = 0

ExactlyOneNonZero(rec) == (rec["Deposit"] # 0) # (rec["Withdrawals"] # 0)

\* blank, boilerplate word or separator, as the specification lists them
Boilerplate(raw) ==
    LET line == strip(raw)
        lowered == lower(line)
    IN  \/ Len(line) = 0
        \/ \E w \in {"account", "page", "total"} : Contains(w, lowered)
        \/ (Len(line) >= 5 /\ \A i \in 1..Len(line) : Char(line, i) \in {".", "-", "_", "="})

\* the greatest score, and the first key that attains it
BestScore(sc) == CHOOSE m \in {sc[i] : i \in 1..Len(sc)} : \A i \in 1..Len(sc) : sc[i] <= m

FirstBest(sc) ==
    CHOOSE i \in 1..Len(sc) : sc[i] = BestScore(sc) /\ \A j \in 1..(i - 1) : sc[j] < BestScore(sc)

(***************************************************************************)
(* Properties.                                                             *)
(***************************************************************************)
\* C1: balance-delta invariant: for every record i > 1 of entries,
\* Deposit - Withdrawals equals the record's signed closing balance minus the
\* signed closing balance of the record before it.
C1_BalanceDelta ==
    \A i \in 2..Len(entries) :
        entries[i]["Deposit"] - entries[i]["Withdrawals"]
            = SignedBalance(entries[i]) - SignedBalance(entries[i - 1])

\* C1 witness: a debit-balance record follows another record and shows a withdrawal.
C1_Witness ==
    /\ Len(entries) >= 2
    /\ EndsWith(entries[2]["Closing Balance"], "Dr")
    /\ entries[2]["Withdrawals"] > 0
    /\ \E i \in 1..Len(lines) : KindOf[lines[i]] \in {"noise", "unparsed"}

\* C2 as stated: every record has exactly one of Deposit and Withdrawals
\* non-zero, except the first record, the only one where both are zero.
C2_ExactlyOne ==
    \A i \in 1..Len(entries) :
        ExactlyOneNonZero(entries[i]) \/ (i = 1 /\ BothZero(entries[i]))

\* C2 amended: no record has both Deposit and Withdrawals non-zero, neither is
\* negative, and both are zero exactly in the first record and in a later
\* record whose signed closing balance equals that of the record before it.
C2_AtMostOne ==
    \A i \in 1..Len(entries) :
        /\ entries[i]["Deposit"] >= 0
        /\ entries[i]["Withdrawals"] >= 0
        /\ ~(entries[i]["Deposit"] # 0 /\ entries[i]["Withdrawals"] # 0)
        /\ BothZero(entries[i])
            <=> (i = 1 \/ SignedBalance(entries[i]) = SignedBalance(entries[i - 1]))

\* C2 witness: a record after the first has both amounts zero, and another
\* record shows a deposit.
C2_Witness ==
    /\ \E i \in 2..Len(entries) : BothZero(entries[i])
    /\ \E i \in 2..Len(entries) : entries[i]["Deposit"] > 0

\* C3 as stated: the text of a continuation line that precedes the first
\* recorded header never appears in the Particulars of any record.
C3_LeadingDropped ==
    \A i \in 1..Len(lines) :
        IsLeadingContinuation(i) =>
            \A k \in 1..Len(entries) : ~Contains(strip(lines[i]), entries[k]["Particulars"])

\* C4: once the walk is over, in a document with no continuation line before
\* its first recorded header, there is one record per recorded header and the
\* Particulars of record k is the narration of its header followed by one space
\* and the trimmed text of each continuation line up to the next recorded
\* header (or the end), in document order.
C4_Folding ==
    (pc # "walk" /\ NoLeadingContinuation) =>
        LET h == HeaderIdx
        IN  /\ Len(entries) = Len(h)
            /\ \A k \in 1..Len(entries) :
                    entries[k]["Particulars"] = ExpectedParticulars(h, k)

\* C4 witness: the walk is over and a record carries two continuation lines
\* that an unparsed date-pattern line separated in the document.
C4_Witness ==
    /\ pc # "walk"
    /\ NoLeadingContinuation
    /\ \E i \in 2..(Len(lines) - 1) :
        /\ KindOf[lines[i]] = "unparsed"
        /\ KindOf[lines[i - 1]] = "continuation"
        /\ KindOf[lines[i + 1]] = "continuation"
    /\ \E k \in 1..Len(entries) :
        /\ Contains(" UPI/9", entries[k]["Particulars"])
        /\ Contains(" REF NO 12345", entries[k]["Particulars"])

\* C5: in "Custom + Default" mode with both checkboxes on, the final Ledger
\* Name of every record is default_mapping(Particulars) when that is not empty,
\* and apply_custom_mapping(Particulars, custom_map) otherwise.
C5_Precedence ==
    (/\ pc \in {"export", "done"}
     /\ mapping_type = CustomDefault
     /\ enable_default_mapping
     /\ enable_custom_mapping) =>
        \A i \in 1..Len(entries) :
            ledger[i] = IF default_mapping(entries[i]["Particulars"]) # ""
                        THEN default_mapping(entries[i]["Particulars"])
                        ELSE apply_custom_mapping(entries[i]["Particulars"], custom_map)

\* C5 witness: a finished run where a record matches a default rule and a
\* custom keyword of another ledger, and carries the default ledger.
C5_Witness ==
    /\ pc = "done"
    /\ mapping_type = CustomDefault
    /\ enable_default_mapping
    /\ enable_custom_mapping
    /\ \E i \in 1..Len(entries) :
        /\ default_mapping(entries[i]["Particulars"]) # ""
        /\ apply_custom_mapping(entries[i]["Particulars"], custom_map)
            \notin {"", default_mapping(entries[i]["Particulars"])}
        /\ ledger[i] = default_mapping(entries[i]["Particulars"])

\* C6: the row the trend matcher classified last has an empty Ledger Name when
\* the greatest score is 70 or less, and otherwise the ledger of the first key,
\* in scan order, that attains the greatest score.
C6_Threshold ==
    (row > 0 /\ scores # <<>>) =>
        ledger[row] = IF BestScore(scores) <= 70 THEN ""
                      ELSE trend_map[FirstBest(scores)][2]

\* C6 witness: two keys of different ledgers tie at 71 and the first one wins.
C6_Witness ==
    /\ row > 0
    /\ Len(scores) = 2
    /\ scores[1] = 71
    /\ scores[2] = 71
    /\ trend_map[1][2] # trend_map[2][2]
    /\ ledger[row] = trend_map[1][2]

\* C7: right after the default step, every Ledger Name is "Cash" if the
\* lowercased narration contains "cash" or "atm", else "Drawings" if it contains
\* a drawings keyword, else empty; the second cash-phrase set decides nothing,
\* each of its phrases containing "cash" or "atm".
C7_Tiers ==
    /\ \A k \in 1..Len(cash_keywords) :
        Contains("cash", cash_keywords[k]) \/ Contains("atm", cash_keywords[k])
    /\ (pc = "custom" /\ enable_default_mapping) =>
        \A i \in 1..Len(entries) :
            LET n == lower(entries[i]["Particulars"])
            IN  ledger[i] = IF Contains("cash", n) \/ Contains("atm", n) THEN "Cash"
                            ELSE IF AnyKeyword(drawings_keywords, n) THEN "Drawings"
                            ELSE ""

\* C7 witness: a narration with a drawings keyword and "atm" is mapped to "Cash",
\* next to one mapped to "Drawings".
C7_Witness ==
    /\ pc = "custom"
    /\ enable_default_mapping
    /\ \E i \in 1..Len(entries) :
        /\ AnyKeyword(drawings_keywords, lower(entries[i]["Particulars"]))
        /\ Contains("atm", lower(entries[i]["Particulars"]))
        /\ ledger[i] = "Cash"
    /\ \E i \in 1..Len(entries) : ledger[i] = "Drawings"

\* C8 as stated: a finished invocation has read the mapping file once and then
\* written it once.
C8_ReadOnceWriteOnce == pc = "done" => store_log = <<"read", "write">>

\* C9 as stated: the Particulars of a record is rewritten at most once after
\* the record is appended.
C9_OneRewrite == \A i \in 1..Len(entries) : appends[i] <= 1

\* C10: a step that reads a blank, boilerplate or separator line leaves entries,
\* prev_balance and narration_buffer as they were; and a step that appends a
\* record after another gives it Deposit - Withdrawals equal to its signed
\* balance minus the signed balance of the last record appended before it.
C10_NoiseFrame ==
    [][/\ (Len(lines') = Len(lines) + 1 /\ Boilerplate(lines'[Len(lines')]))
            => UNCHANGED walker
       /\ (Len(entries') = Len(entries) + 1 /\ entries # <<>>)
            => LET new == entries'[Len(entries')]
               IN  new["Deposit"] - new["Withdrawals"]
                     = SignedBalance(new) - SignedBalance(entries[Len(entries)])
      ]_vars

\* C10 witness: a boilerplate line with the shape of a valid header lies
\* between two recorded headers, and only those two are in entries.
C10_Witness ==
    /\ Len(lines) = 3
    /\ KindOf[lines[1]] = "header"
    /\ Boilerplate(lines[2])
    /\ parse_transaction_line(strip(lines[2]), <<>>).parsed # <<>>
    /\ KindOf[lines[3]] = "header"
    /\ Len(entries) = 2
    /\ entries[2]["Deposit"] - entries[2]["Withdrawals"]
        = SignedBalance(entries[2]) - SignedBalance(entries[1])

====
